---- MODULE Spec2Model ----
(***************************************************************************)
(* Model of the Python sidecar (src/python-sidecar/main.py): the           *)
(* supervisor of the notebooklm-mcp child process, the MCP session         *)
(* initializer, the SSE response parser and the /mcp/list, /mcp/call,      *)
(* /execute and /health handlers, run by one asyncio event loop.           *)
(*                                                                         *)
(* Four specifications share the state: Spec is the facade as lifespan     *)
(* runs it, with /mcp/list and /mcp/call handlers interleaved at their     *)
(* awaits; SpecServe is the same facade with /health and /execute served   *)
(* too and the enablement flag free to change once it serves; SpecAPI      *)
(* calls the supervisor functions and every handler freely, one caller at  *)
(* a time; SpecParse runs parse_sse_response alone.                        *)
(*                                                                         *)
(* Response bodies are sequences of lexical tokens (the literal "data:",   *)
(* whitespace, JSON punctuation, string literals, numbers, the JSON        *)
(* literals and other text).  String literals are atomic: one contains     *)
(* another only when they are equal.                                       *)
(***************************************************************************)
EXTENDS Integers, Sequences, FiniteSets, TLC

(***************************************************************************)
(* Python values: a tuple whose first element is the type.  The items of a *)
(* dict are <<key, value>> pairs in insertion order with distinct keys;    *)
(* the items of a str are its pieces.                                      *)
(***************************************************************************)
PyNone == <<"None">>
Absent == <<"absent">>
PyBool(b) == <<"bool", IF b THEN "True" ELSE "False">>
PyInt(n) == <<"int", n>>
PyStr(s) == <<"str", s>>
PyFmt(s, a) == <<"str", s, a>>
PyList(xs) == <<"list">> \o xs
PyDict(kvs) == <<"dict">> \o kvs

Tag(x) == x[1]
Items(x) == Tail(x)

\* bool(x): None, False, 0, "", [] and {} are falsy
Truthy(x) ==
  CASE Tag(x) \in {"None", "absent"} -> FALSE
    [] Tag(x) = "bool" -> x = PyBool(TRUE)
    [] Tag(x) = "int" -> x # PyInt("0")
    [] Tag(x) = "str" -> x # PyStr("")
    [] Tag(x) \in {"list", "dict"} -> Items(x) # <<>>

HasKey(d, k) == \E i \in 1..Len(Items(d)) : Items(d)[i][1] = k

DictGet(d, k, default) ==
  IF HasKey(d, k)
  THEN Items(d)[CHOOSE i \in 1..Len(Items(d)) : Items(d)[i][1] = k][2]
  ELSE default

\* dict[k] = value while parsing an object: a repeated key keeps its place
DictPut(kvs, k, val) ==
  IF \E i \in 1..Len(kvs) : kvs[i][1] = k
  THEN [i \in 1..Len(kvs) |-> IF kvs[i][1] = k THEN <<k, val>> ELSE kvs[i]]
  ELSE Append(kvs, <<k, val>>)

\* `k in x` raises TypeError for None, bool and int
InRaises(x) == Tag(x) \in {"None", "bool", "int", "absent"}

\* `k in x` for a str k: key of a dict, element of a list, substring of a str
In(k, x) ==
  CASE Tag(x) = "dict" -> HasKey(x, k)
    [] Tag(x) = "list" -> \E i \in 1..Len(Items(x)) : Items(x)[i] = PyStr(k)
    [] Tag(x) = "str" -> x = PyStr(k) \/ k = ""
    [] OTHER -> FALSE

\* x[k] for a str k raises TypeError unless x is a dict (KeyError if missing)
ItemRaises(x, k) == Tag(x) # "dict" \/ ~HasKey(x, k)

\* x.get raises AttributeError unless x is a dict
GetRaises(x) == Tag(x) # "dict"

\* the values `for t in x` yields; TypeError for None, bool and int
IterRaises(x) == Tag(x) \notin {"list", "dict", "str"}

Iterate(x) ==
  CASE Tag(x) = "list" -> Items(x)
    [] Tag(x) = "dict" -> [i \in 1..Len(Items(x)) |-> PyStr(Items(x)[i][1])]
    [] Tag(x) = "str" -> IF x = PyStr("") THEN <<>> ELSE <<x>>
    [] OTHER -> <<>>

(***************************************************************************)
(* Response bodies as token sequences                                      *)
(***************************************************************************)
DATA == [k |-> "data", v |-> "data:"]
WS == [k |-> "ws", v |-> " "]
NL == [k |-> "ws", v |-> "\n"]
P(c) == [k |-> "p", v |-> c]
S(s) == [k |-> "s", v |-> s]
N(d) == [k |-> "n", v |-> d]
LIT(w) == [k |-> "lit", v |-> w]
TXT(w) == [k |-> "txt", v |-> w]

IsTok(toks, i, tok) == i <= Len(toks) /\ toks[i] = tok

\* the least element of a set of positions, or default when it is empty
FirstOr(positions, default) ==
  IF positions = {} THEN default
  ELSE CHOOSE j \in positions : \A m \in positions : j <= m

\* the first position at or after i that holds no whitespace (Len + 1 if none)
SkipWs(toks, i) ==
  FirstOr({j \in i..Len(toks) : toks[j].k # "ws"}, Len(toks) + 1)

ParseFail == [ok |-> FALSE, val |-> PyNone, next |-> 0]

RECURSIVE ParseValue(_, _)
RECURSIVE ParseMembers(_, _, _)
RECURSIVE ParseElements(_, _, _)

\* json scanner: one value starting at the first non-blank token at or after i0
ParseValue(toks, i0) ==
  LET i == SkipWs(toks, i0)
  IN IF i > Len(toks) THEN ParseFail
     ELSE LET tok == toks[i]
          IN CASE tok.k = "s" -> [ok |-> TRUE, val |-> PyStr(tok.v), next |-> i + 1]
               [] tok.k = "n" -> [ok |-> TRUE, val |-> PyInt(tok.v), next |-> i + 1]
               [] tok.k = "lit" /\ tok.v \in {"null", "true", "false"} ->
                    [ok |-> TRUE,
                     val |-> IF tok.v = "null" THEN PyNone ELSE PyBool(tok.v = "true"),
                     next |-> i + 1]
               [] tok = P("{") ->
                    LET j == SkipWs(toks, i + 1)
                    IN IF IsTok(toks, j, P("}"))
                       THEN [ok |-> TRUE, val |-> PyDict(<<>>), next |-> j + 1]
                       ELSE ParseMembers(toks, j, <<>>)
               [] tok = P("[") ->
                    LET j == SkipWs(toks, i + 1)
                    IN IF IsTok(toks, j, P("]"))
                       THEN [ok |-> TRUE, val |-> PyList(<<>>), next |-> j + 1]
                       ELSE ParseElements(toks, j, <<>>)
               [] OTHER -> ParseFail

\* "key" : value, then "," and more members or "}"
ParseMembers(toks, i, acc) ==
  IF i > Len(toks) \/ toks[i].k # "s" THEN ParseFail
  ELSE LET c == SkipWs(toks, i + 1)
       IN IF ~IsTok(toks, c, P(":")) THEN ParseFail
          ELSE LET r == ParseValue(toks, c + 1)
               IN IF ~r.ok THEN ParseFail
                  ELSE LET n == SkipWs(toks, r.next)
                           acc2 == DictPut(acc, toks[i].v, r.val)
                       IN IF IsTok(toks, n, P("}"))
                          THEN [ok |-> TRUE, val |-> PyDict(acc2), next |-> n + 1]
                          ELSE IF IsTok(toks, n, P(","))
                          THEN ParseMembers(toks, SkipWs(toks, n + 1), acc2)
                          ELSE ParseFail

\* value, then "," and more elements or "]"
ParseElements(toks, i, acc) ==
  LET r == ParseValue(toks, i)
  IN IF ~r.ok THEN ParseFail
     ELSE LET n == SkipWs(toks, r.next)
              acc2 == Append(acc, r.val)
          IN IF IsTok(toks, n, P("]"))
             THEN [ok |-> TRUE, val |-> PyList(acc2), next |-> n + 1]
             ELSE IF IsTok(toks, n, P(","))
             THEN ParseElements(toks, SkipWs(toks, n + 1), acc2)
             ELSE ParseFail

\* the scanned value r is all of toks but for blanks: else "Extra data"
WholeText(toks, r) ==
  IF r.ok /\ SkipWs(toks, r.next) > Len(toks)
  THEN [ok |-> TRUE, val |-> r.val]
  ELSE [ok |-> FALSE, val |-> PyNone]

\* json.loads: one value, blanks around it, nothing else; ok = FALSE when it raises
json_loads(toks) == WholeText(toks, ParseValue(toks, 1))

\* re.search(r'data:\s*(\{.*\})', text, re.DOTALL): the positions i of a "data:"
\* whose first non-blank successor is "{" with a "}" somewhere after it
SseStarts(text) ==
  {i \in 1..Len(text) :
     /\ text[i] = DATA
     /\ LET j == SkipWs(text, i + 1)
        IN /\ IsTok(text, j, P("{"))
           /\ \E e \in (j + 1)..Len(text) : text[e] = P("}")}

\* the greedy .* of the pattern: from the "{" at j to the last "}" of the text
GroupFrom(text, j) ==
  SubSeq(text, j, CHOOSE a \in (j + 1)..Len(text) :
                    /\ text[a] = P("}")
                    /\ \A b \in (a + 1)..Len(text) : text[b] # P("}"))

\* group(1) of the leftmost match
SseGroup(text) == GroupFrom(text, SkipWs(text, FirstOr(SseStarts(text), 0) + 1))

\* mutant: no except clause, the exception of json.loads escapes
LoadedOrRaise(r) == IF r.ok THEN r.val ELSE <<"raised", "JSONDecodeError">>

\* lines 69-72: except Exception: return None
LoadedOrNone(r) == IF r.ok THEN r.val ELSE PyNone

\* the parsed JSON data, None when anything raises
parse_sse_response(text) ==
  LoadedOrNone(IF SseStarts(text) # {} THEN json_loads(SseGroup(text))
               ELSE json_loads(text))

(***************************************************************************)
(* The outcome of one POST to NOTEBOOKLM_MCP_URL: the request timed out    *)
(* (httpx.TimeoutException), failed otherwise (any other exception), or    *)
(* brought a response with a status, a body and an mcp-session-id header   *)
(* ("" when the header is missing or empty).                               *)
(***************************************************************************)
Timeout == [kind |-> "timeout", status |-> 0, body |-> <<>>, sid |-> ""]
ConnectError == [kind |-> "error", status |-> 0, body |-> <<>>, sid |-> ""]
Http(status, body, sid) == [kind |-> "http", status |-> status, body |-> body, sid |-> sid]

\* response.text[:500] if response.text else "No response body"
ErrTextLimit == 500

Min(a, b) == IF a <= b THEN a ELSE b

error_text(body) ==
  IF body = <<>> THEN PyStr("No response body")
  ELSE <<"str">> \o [i \in 1..Min(Len(body), ErrTextLimit) |-> body[i].v]

\* the dict a /mcp/call handler returns; Absent marks a key the dict lacks
Payload(success, error, hint, tool, result, details) ==
  [success |-> success, error |-> error, hint |-> hint, tool |-> tool,
   result |-> result, details |-> details]

Failure(error) == Payload(FALSE, error, Absent, Absent, Absent, Absent)

\* except Exception as e: "MCP call failed: {str(e)}"
CallFailed(e) == Failure(PyFmt("MCP call failed: ", e))

\* what a try block does: it returns ret, or raises exc ("" when it returns)
Returns(ret) == [exc |-> "", ret |-> ret]
Raises(exc) == [exc |-> exc, ret |-> Failure(Absent)]

\* line 419, result being data.get("result", {})
UnwrapResult(tool_name, data, result) ==
  IF GetRaises(result) THEN Raises("AttributeError")
  ELSE Returns(Payload(TRUE, Absent, Absent, PyStr(tool_name),
                       DictGet(result, "content", DictGet(data, "result", PyNone)),
                       Absent))

\* lines 411-420: the parsed response of a 200, unwrapped
Unwrap200(tool_name, data) ==
  IF ~Truthy(data) THEN Returns(Failure(PyStr("Failed to parse MCP response")))
  ELSE IF InRaises(data) THEN Raises("TypeError")
  ELSE IF In("error", data)
  THEN IF ItemRaises(data, "error") THEN Raises("TypeError")
       ELSE Returns(Failure(DictGet(data, "error", PyNone)))
  ELSE IF GetRaises(data) THEN Raises("AttributeError")
  ELSE UnwrapResult(tool_name, data, DictGet(data, "result", PyDict(<<>>)))

\* lines 394-429: the tools/call request and what follows it in the try block
CallTry(tool_name, o) ==
  IF o.kind = "timeout" THEN Raises("TimeoutException")
  ELSE IF o.kind = "error" THEN Raises("ConnectError")
  ELSE IF o.status = 200 THEN Unwrap200(tool_name, parse_sse_response(o.body))
  ELSE Returns(Payload(FALSE, PyFmt("MCP server returned ", ToString(o.status)),
                       Absent, Absent, Absent, error_text(o.body)))

\* mutant: no except clause for httpx.TimeoutException
CallExcept_NoTimeoutClause(exc) == Returns(CallFailed(exc))

\* mutant: only the errors of httpx are caught
CallExcept_HttpOnly(exc) ==
  IF exc = "TimeoutException" THEN Returns(Failure(PyStr("MCP call timed out")))
  ELSE IF exc = "ConnectError" THEN Returns(CallFailed(exc))
  ELSE Raises(exc)

\* lines 430-433: except httpx.TimeoutException, except Exception as e
CallExcept(exc) ==
  IF exc = "TimeoutException" THEN Returns(Failure(PyStr("MCP call timed out")))
  ELSE Returns(CallFailed(exc))

\* lines 380-433: how call_mcp_tool ends for the outcome o of its tools/call
CallHandled(t) == IF t.exc = "" THEN t ELSE CallExcept(t.exc)

CallResponse(tool_name, o) == CallHandled(CallTry(tool_name, o))

\* lines 436-447: the child is not running
NotEnabled ==
  Payload(FALSE,
          PyStr("NotebookLM MCP is not enabled. Set ENABLE_NOTEBOOKLM_MCP=true and provide NOTEBOOKLM_NOTEBOOK_ID."),
          PyStr("Run: notebooklm-mcp init https://notebooklm.google.com/notebook/YOUR_ID"),
          Absent, Absent, Absent)

NotRunning(tool_name) ==
  Payload(FALSE, PyStr("NotebookLM MCP server is not running"), Absent,
          PyStr(tool_name), Absent, Absent)

\* mutant: the test of the flag inverted
CallFallback_Inverted(flag, tool_name) ==
  IF flag THEN NotEnabled ELSE NotRunning(tool_name)

\* lines 436-447, flag being what line 436 reads from the environment
CallFallback(flag, tool_name) ==
  IF ~flag THEN NotEnabled ELSE NotRunning(tool_name)

(***************************************************************************)
(* McpToolInfo and the tool catalogs                                       *)
(***************************************************************************)
ToolInfo(name, description, inputSchema) ==
  [name |-> name, description |-> description, inputSchema |-> inputSchema]

\* McpToolInfo(**t) raises: t is no mapping, or a field fails validation
ToolInfoRaises(t) ==
  \/ Tag(t) # "dict"
  \/ ~HasKey(t, "name") \/ Tag(DictGet(t, "name", PyNone)) # "str"
  \/ ~HasKey(t, "description") \/ Tag(DictGet(t, "description", PyNone)) # "str"
  \/ HasKey(t, "inputSchema") /\ Tag(DictGet(t, "inputSchema", PyNone)) # "dict"

McpToolInfo(t) ==
  ToolInfo(DictGet(t, "name", PyNone), DictGet(t, "description", PyNone),
           DictGet(t, "inputSchema", PyDict(<<>>)))

StrProp == PyDict(<< <<"type", PyStr("string")>> >>)
NotebookIdSchema ==
  PyDict(<< <<"type", PyStr("object")>>,
            <<"properties", PyDict(<< <<"notebook_id", StrProp>> >>)>>,
            <<"required", PyList(<<PyStr("notebook_id")>>)>> >>)

\* lines 304-371
FallbackTools ==
  << ToolInfo(PyStr("healthcheck"), PyStr("Check server health status"), PyDict(<<>>)),
     ToolInfo(PyStr("chat_with_notebook"),
              PyStr("Send a message to NotebookLM and get a grounded response"),
              PyDict(<< <<"type", PyStr("object")>>,
                        <<"properties",
                          PyDict(<< <<"message",
                                      PyDict(<< <<"type", PyStr("string")>>,
                                                <<"description", PyStr("The message to send")>> >>)>>,
                                    <<"notebook_id",
                                      PyDict(<< <<"type", PyStr("string")>>,
                                                <<"description", PyStr("Optional notebook ID")>> >>)>> >>)>>,
                        <<"required", PyList(<<PyStr("message")>>)>> >>)),
     ToolInfo(PyStr("send_chat_message"),
              PyStr("Send a chat message without waiting for response"),
              PyDict(<< <<"type", PyStr("object")>>,
                        <<"properties",
                          PyDict(<< <<"message", StrProp>>,
                                    <<"wait_for_response",
                                      PyDict(<< <<"type", PyStr("boolean")>>,
                                                <<"default", PyBool(FALSE)>> >>)>> >>)>>,
                        <<"required", PyList(<<PyStr("message")>>)>> >>)),
     ToolInfo(PyStr("get_chat_response"), PyStr("Get the response from NotebookLM"),
              PyDict(<< <<"type", PyStr("object")>>,
                        <<"properties",
                          PyDict(<< <<"timeout",
                                      PyDict(<< <<"type", PyStr("integer")>>,
                                                <<"default", PyInt("30")>> >>)>> >>)>> >>)),
     ToolInfo(PyStr("navigate_to_notebook"), PyStr("Navigate to a specific notebook"),
              NotebookIdSchema),
     ToolInfo(PyStr("get_default_notebook"), PyStr("Get the currently active notebook"),
              PyDict(<<>>)),
     ToolInfo(PyStr("set_default_notebook"), PyStr("Set the default notebook"),
              NotebookIdSchema) >>

\* a list_mcp_tools result: the child's catalog (live) or the fallback
Catalog(live, tools) == [live |-> live, tools |-> tools]

\* line 298, result being data["result"]: "tools" in data["result"]
ToolsIn(result) ==
  IF InRaises(result) THEN [exc |-> "TypeError", holds |-> FALSE]
  ELSE [exc |-> "", holds |-> In("tools", result)]

\* line 298: data and "result" in data and "tools" in data["result"]
ListGuard(data) ==
  IF ~Truthy(data) THEN [exc |-> "", holds |-> FALSE]
  ELSE IF InRaises(data) THEN [exc |-> "TypeError", holds |-> FALSE]
  ELSE IF ~In("result", data) THEN [exc |-> "", holds |-> FALSE]
  ELSE IF ItemRaises(data, "result") THEN [exc |-> "TypeError", holds |-> FALSE]
  ELSE ToolsIn(DictGet(data, "result", PyNone))

\* line 299: [McpToolInfo(**t) for t in ts]
BuildAll(ts) ==
  IF \E i \in 1..Len(ts) : ToolInfoRaises(ts[i])
  THEN [exc |-> "ValidationError", tools |-> <<>>]
  ELSE [exc |-> "", tools |-> [i \in 1..Len(ts) |-> McpToolInfo(ts[i])]]

\* line 299: for t in tools
BuildFrom(tools) ==
  IF IterRaises(tools) THEN [exc |-> "TypeError", tools |-> <<>>]
  ELSE BuildAll(Iterate(tools))

\* line 299, result being data["result"]: result["tools"]
BuildIn(result) ==
  IF ItemRaises(result, "tools") THEN [exc |-> "TypeError", tools |-> <<>>]
  ELSE BuildFrom(DictGet(result, "tools", PyNone))

\* line 299: [McpToolInfo(**t) for t in data["result"]["tools"]]
ListBuild(data) == BuildIn(DictGet(data, "result", PyNone))

\* what the try block of list_mcp_tools does: it returns tools, raises exc, or
\* falls through to the fallback (fell)
ListReturns(b) == [exc |-> b.exc, fell |-> FALSE, tools |-> b.tools]
ListRaises(exc) == [exc |-> exc, fell |-> FALSE, tools |-> <<>>]
ListFalls == [exc |-> "", fell |-> TRUE, tools |-> <<>>]

\* lines 298-299, g being the value of line 298's condition
ListGuarded(data, g) ==
  IF g.exc # "" THEN ListRaises(g.exc)
  ELSE IF ~g.holds THEN ListFalls
  ELSE ListReturns(ListBuild(data))

\* lines 297-299
ListParsed(data) == ListGuarded(data, ListGuard(data))

\* lines 284-299: the tools/list request and what follows it in the try block
ListTry(o) ==
  IF o.kind = "timeout" THEN ListRaises("TimeoutException")
  ELSE IF o.kind = "error" THEN ListRaises("ConnectError")
  ELSE IF o.status # 200 THEN ListFalls
  ELSE ListParsed(parse_sse_response(o.body))

\* line 300: except Exception as e: the handler goes on to the fallback
ListExcept(exc) == [exc |-> "", ret |-> Catalog(FALSE, FallbackTools)]

\* lines 300-371: the end of list_mcp_tools after its try block did t
ListHandled(t) ==
  IF t.exc # "" THEN ListExcept(t.exc)
  ELSE IF t.fell THEN [exc |-> "", ret |-> Catalog(FALSE, FallbackTools)]
  ELSE [exc |-> "", ret |-> Catalog(TRUE, t.tools)]

\* lines 275-371: how list_mcp_tools ends for the outcome o of its tools/list
ListResponse(o) == ListHandled(ListTry(o))

(***************************************************************************)
(* Bounds and the inputs the environment draws from                        *)
(***************************************************************************)
\* request handlers the event loop runs at a time
MaxReq == 2
\* children spawned over a run when start() is called freely
MaxSpawn == 3
\* calls of stop() over a run when stop() is called freely
MaxStops == 2

Requests == 1..MaxReq

\* notebooklm_process = None
NoProcess == 0
\* mcp_session_id = None, and a request without the mcp-session-id header
None == "None"

\* session identifiers the child issues
SessionIds == {"s1", "s2"}

\* tool names a caller asks for
ToolNames == {"x"}

\* arguments a caller passes
ToolArguments == {PyDict(<<>>)}

Obj(members) == <<P("{")>> \o members \o <<P("}")>>
Arr(elements) == <<P("[")>> \o elements \o <<P("]")>>
Member(k, value) == <<S(k), P(":")>> \o value
Framed(json) == <<TXT("event: message"), NL, DATA, WS>> \o json \o <<NL, NL>>

ToolA == Obj(Member("name", <<S("a")>>) \o <<P(",")>> \o Member("description", <<S("d")>>))
ToolB ==
  Obj(Member("name", <<S("b")>>) \o <<P(",")>> \o Member("description", <<S("d")>>)
      \o <<P(",")>> \o Member("inputSchema", Obj(Member("type", <<S("object")>>))))
ToolNoDescription == Obj(Member("name", <<S("c")>>))
ToolsResult(tools) == Obj(Member("result", Obj(Member("tools", tools))))

\* bodies of a tools/call response
CallBodies ==
  { Framed(Obj(Member("result", Obj(Member("content", Arr(<<S("hi")>>)))))),
    Obj(Member("result", Obj(Member("content", Arr(<<S("hi")>>))))),
    Framed(Obj(Member("result", Obj(Member("content", <<LIT("null")>>))))),
    Framed(Obj(Member("result", Obj(Member("isError", <<LIT("false")>>))))),
    Framed(Obj(Member("id", <<N("1")>>))),
    Framed(Obj(Member("error", Obj(Member("code", <<N("1")>>))))),
    Framed(Obj(Member("error", <<LIT("null")>>) \o <<P(",")>>
               \o Member("result", Obj(Member("content", <<S("hi")>>))))),
    Framed(Obj(Member("result", <<S("ok")>>))),
    Framed(Obj(Member("result", <<LIT("null")>>))),
    Framed(Obj(<<>>)),
    <<DATA, WS, P("{"), S("result")>>,
    Arr(<<N("1")>>),
    Arr(<<S("error")>>),
    <<S("error")>>,
    <<N("5")>>,
    <<TXT("Internal Server Error")>>,
    <<>> }

\* bodies of a tools/list response
ListBodies ==
  { Framed(ToolsResult(Arr(ToolA \o <<P(",")>> \o ToolB))),
    ToolsResult(Arr(ToolA)),
    Framed(ToolsResult(Arr(<<>>))),
    Framed(ToolsResult(Arr(ToolA \o <<P(",")>> \o ToolNoDescription))),
    Framed(ToolsResult(Arr(<<N("5")>>))),
    Framed(ToolsResult(Obj(<<>>))),
    Framed(ToolsResult(Obj(Member("a", ToolA)))),
    Framed(ToolsResult(<<S("")>>)),
    Framed(ToolsResult(<<LIT("null")>>)),
    Framed(Obj(Member("result", Obj(<<>>)))),
    Framed(Obj(Member("result", <<S("tools")>>))),
    Framed(Obj(Member("result", <<LIT("null")>>))),
    Framed(Obj(Member("id", <<N("1")>>))),
    Arr(<<S("result")>>),
    <<DATA, WS, P("{"), S("result")>>,
    <<>> }

\* bodies of an initialize response
InitBodies ==
  { Framed(Obj(Member("result", Obj(Member("capabilities", Obj(<<>>)))))),
    Framed(Obj(Member("result", <<S("ok")>>))),
    <<>> }

ErrorBodies == { <<TXT("Internal Server Error")>>, <<>> }

Failures == {Timeout, ConnectError} \cup {Http(500, b, "") : b \in ErrorBodies}

CallOutcomes == Failures \cup {Http(200, b, "") : b \in CallBodies}
ListOutcomes == Failures \cup {Http(200, b, "") : b \in ListBodies}
InitOutcomes ==
  Failures \cup {Http(200, b, sid) : b \in InitBodies, sid \in SessionIds \cup {""}}

(***************************************************************************)
(* initialize_mcp_session, from the response on (lines 109-126)            *)
(***************************************************************************)
\* lines 109-111: status 200 and a non-empty mcp-session-id header
InitStores(o) == o.kind = "http" /\ o.status = 200 /\ o.sid # ""

\* lines 115-117 raise (caught at line 123, after the session id was stored)
CapabilitiesRaise(data) ==
  /\ Truthy(data)
  /\ \/ InRaises(data)
     \/ /\ In("result", data)
        /\ \/ ItemRaises(data, "result")
           \/ GetRaises(DictGet(data, "result", PyNone))

\* mutant: the session id is stored only after the body has been parsed
InitResponse_ParseFirst(session, o) ==
  IF InitStores(o) /\ ~CapabilitiesRaise(parse_sse_response(o.body))
  THEN [session |-> o.sid, ret |-> o.sid]
  ELSE [session |-> session, ret |-> None]

\* mutant: an attempt that stores nothing clears the session id
InitResponse_Clearing(session, o) ==
  IF InitStores(o)
  THEN [session |-> o.sid,
        ret |-> IF CapabilitiesRaise(parse_sse_response(o.body)) THEN None ELSE o.sid]
  ELSE [session |-> None, ret |-> None]

\* the session id after the attempt and the value the function returns
InitResponse(session, o) ==
  IF InitStores(o)
  THEN [session |-> o.sid,
        ret |-> IF CapabilitiesRaise(parse_sse_response(o.body)) THEN None ELSE o.sid]
  ELSE [session |-> session, ret |-> None]

(***************************************************************************)
(* State                                                                   *)
(***************************************************************************)
VARIABLES
  enabled,             \* os.getenv("ENABLE_NOTEBOOKLM_MCP", "false").lower() == "true"
  flag_at_startup,     \* what line 195 read: "enabled" or "disabled", "unread" before
  config_exists,       \* os.path.exists(config_path)
  notebooklm_process,  \* the recorded child handle (a pid), NoProcess for None
  mcp_session_id,      \* the session id, None when unset
  spawned,             \* children spawned so far: their pids are 1..spawned
  live,                \* pids of the children that have not exited
  terminated,          \* pids terminate() was called on
  replaced,            \* pids whose handle a later start() overwrote while they ran
  phase,               \* where lifespan is; "api" when the functions are called freely
  stop_pc,             \* "wait" while stop_notebooklm_mcp_server blocks in wait()
  stop_calls,          \* calls of stop_notebooklm_mcp_server so far
  pc,                  \* where each request handler is
  rq,                  \* each request handler's locals and what it has done
  sse_text,            \* the text handed to parse_sse_response when it is run alone
  sse_data             \* what that call returned; NotCalled before it has run

vars ==
  <<enabled, flag_at_startup, config_exists, notebooklm_process, mcp_session_id, spawned, live,
    terminated, replaced, phase, stop_pc, stop_calls, pc, rq, sse_text, sse_data>>

procVars == <<notebooklm_process, spawned, live, terminated, replaced, config_exists>>

NotCalled == <<"not called">>

NoOutcome == [kind |-> "none", status |-> 0, body |-> <<>>, sid |-> ""]

\* a handler that is not running; op is "list", "call", "init", "execute" or
\* "health" while it runs, tool and arguments its McpToolRequest, running what
\* its test of the child found, sent the requests it has posted, out the outcome
\* of its tools/list or tools/call, exc the exception it let escape, ret and
\* catalog what it returned; action and data are the envelope of a handler
\* entered through /execute, reply what /execute or /health itself returned,
\* init_out the outcome of the initialize request of an initialize_mcp_session
\* that is at its return
IdleRq ==
  [op |-> "none", tool |-> "", arguments |-> PyDict(<<>>), running |-> FALSE,
   sent |-> <<>>, out |-> NoOutcome, exc |-> "", ret |-> Failure(Absent),
   catalog |-> Catalog(FALSE, <<>>), action |-> "", data |-> Absent,
   reply |-> Absent, init_out |-> NoOutcome]

\* a posted request: its JSON-RPC method and its mcp-session-id header
Post(method, session) == [method |-> method, session |-> session]

\* Popen.poll() is None for the recorded child
ChildAlive == notebooklm_process \in live

\* mutant: the handle is tested, poll() is not
IsRunning_NoPoll == notebooklm_process # NoProcess

\* lines 274 and 379: notebooklm_process and notebooklm_process.poll() is None
IsRunning == notebooklm_process # NoProcess /\ notebooklm_process \in live

\* the event loop runs handlers: lifespan has yielded and no stop() blocks it
Serving == phase \in {"serving", "api"} /\ stop_pc = "idle"

\* the event loop is not blocked in the wait() of stop_notebooklm_mcp_server
LoopRuns == stop_pc = "idle"

\* no handler is at its return, or at the return of initialize_mcp_session
NoneDone == \A r \in Requests : pc[r] \notin {"done", "init_ret"}

InitCommon ==
  /\ enabled \in BOOLEAN
  /\ flag_at_startup = "unread"
  /\ config_exists \in BOOLEAN
  /\ notebooklm_process = NoProcess
  /\ mcp_session_id = None
  /\ spawned = 0
  /\ live = {}
  /\ terminated = {}
  /\ replaced = {}
  /\ stop_pc = "idle"
  /\ stop_calls = 0
  /\ pc = [r \in Requests |-> "idle"]
  /\ rq = [r \in Requests |-> IdleRq]

\* parse_sse_response is not run alone
ParserUnused == sse_text = <<>> /\ sse_data = NotCalled

Init == InitCommon /\ phase = "boot" /\ ParserUnused

(***************************************************************************)
(* The supervisor                                                          *)
(***************************************************************************)
\* lines 128-166; write_ok: the default config can be written (line 146),
\* spawn_ok: Popen succeeds.  The write is outside the try block.
StartRaises(write_ok) == ~config_exists /\ ~write_ok

\* mutant: a running child is stopped before the new one is spawned
start_notebooklm_mcp_server_Restarting(write_ok, spawn_ok) ==
  IF StartRaises(write_ok)
  THEN UNCHANGED procVars
  ELSE /\ config_exists' = TRUE
       /\ IF spawn_ok
          THEN /\ spawned' = spawned + 1
               /\ notebooklm_process' = spawned + 1
               /\ live' = (live \ {notebooklm_process}) \cup {spawned + 1}
               /\ replaced' = replaced
          ELSE UNCHANGED <<spawned, notebooklm_process, live, replaced>>
       /\ UNCHANGED terminated

start_notebooklm_mcp_server(write_ok, spawn_ok) ==
  IF StartRaises(write_ok)
  THEN UNCHANGED procVars
  ELSE /\ config_exists' = TRUE
       /\ IF spawn_ok
          THEN /\ spawned' = spawned + 1
               /\ notebooklm_process' = spawned + 1
               /\ live' = live \cup {spawned + 1}
               /\ replaced' = IF ChildAlive THEN replaced \cup {notebooklm_process}
                              ELSE replaced
          ELSE UNCHANGED <<spawned, notebooklm_process, live, replaced>>
       /\ UNCHANGED terminated

\* mutant: no test of the handle before terminate() and wait()
stop_notebooklm_mcp_server_Unguarded ==
  /\ stop_calls' = stop_calls + 1
  /\ terminated' = terminated \cup {notebooklm_process}
  /\ stop_pc' = "wait"
  /\ UNCHANGED <<notebooklm_process, mcp_session_id, spawned, live, replaced,
                 config_exists>>

\* mutant: stop() also forgets the session
stop_notebooklm_mcp_server_ClearsSession ==
  /\ stop_calls' = stop_calls + 1
  /\ IF notebooklm_process # NoProcess
     THEN /\ terminated' = terminated \cup {notebooklm_process}
          /\ stop_pc' = "wait"
          /\ mcp_session_id' = None
     ELSE UNCHANGED <<terminated, stop_pc, mcp_session_id>>
  /\ UNCHANGED <<notebooklm_process, spawned, live, replaced, config_exists>>

\* lines 171-174: up to wait(), which blocks until the child has exited
stop_notebooklm_mcp_server ==
  /\ stop_calls' = stop_calls + 1
  /\ IF notebooklm_process # NoProcess
     THEN /\ terminated' = terminated \cup {notebooklm_process}
          /\ stop_pc' = "wait"
     ELSE UNCHANGED <<terminated, stop_pc>>
  /\ UNCHANGED <<notebooklm_process, mcp_session_id, spawned, live, replaced,
                 config_exists>>

\* mutant: no wait(): the handle is cleared while the child may still run
StopReturn_NoWait ==
  /\ stop_pc = "wait"
  /\ notebooklm_process' = NoProcess
  /\ stop_pc' = "idle"
  /\ phase' = IF phase = "stopping" THEN "down" ELSE phase
  /\ UNCHANGED <<enabled, flag_at_startup, sse_text, sse_data, config_exists, mcp_session_id, spawned, live,
                 terminated, replaced, stop_calls, pc, rq>>

\* lines 174-175: wait() returns once the child has exited; the handle is cleared
StopReturn ==
  /\ stop_pc = "wait"
  /\ ~ChildAlive
  /\ notebooklm_process' = NoProcess
  /\ stop_pc' = "idle"
  /\ phase' = IF phase = "stopping" THEN "down" ELSE phase
  /\ UNCHANGED <<enabled, flag_at_startup, sse_text, sse_data, config_exists, mcp_session_id, spawned, live, terminated,
                 replaced, stop_calls, pc, rq>>

\* a child exits, by itself or on SIGTERM
ChildExit(p) ==
  /\ p \in live
  /\ NoneDone
  /\ live' = live \ {p}
  /\ UNCHANGED <<enabled, flag_at_startup, sse_text, sse_data, config_exists, notebooklm_process, mcp_session_id, spawned,
                 terminated, replaced, phase, stop_pc, stop_calls, pc, rq>>

(***************************************************************************)
(* lifespan (lines 181-206)                                                *)
(***************************************************************************)
\* mutant: the child is started whatever the flag reads
StartupEnabled_Always == TRUE

\* line 195
StartupEnabled == enabled

\* mutant: initialize_mcp_session is awaited whatever the flag reads
Startup_InitAlways(write_ok, spawn_ok) ==
  /\ phase = "boot"
  /\ IF StartupEnabled
     THEN /\ start_notebooklm_mcp_server(write_ok, spawn_ok)
          /\ phase' = IF StartRaises(write_ok) THEN "failed" ELSE "sleep"
     ELSE /\ UNCHANGED procVars
          /\ phase' = "sleep"
  /\ flag_at_startup' = IF enabled THEN "enabled" ELSE "disabled"
  /\ UNCHANGED <<enabled, sse_text, sse_data, mcp_session_id, stop_pc, stop_calls, pc, rq>>

\* lines 195-196: start the child if enabled; an exception of start() ends startup
Startup(write_ok, spawn_ok) ==
  /\ phase = "boot"
  /\ IF StartupEnabled
     THEN /\ start_notebooklm_mcp_server(write_ok, spawn_ok)
          /\ phase' = IF StartRaises(write_ok) THEN "failed" ELSE "sleep"
     ELSE /\ UNCHANGED procVars
          /\ phase' = "serving"
  /\ flag_at_startup' = IF enabled THEN "enabled" ELSE "disabled"
  /\ UNCHANGED <<enabled, sse_text, sse_data, mcp_session_id, stop_pc, stop_calls, pc, rq>>

\* lines 198-200: after the sleep, initialize_mcp_session posts initialize
StartupInit ==
  /\ phase = "sleep"
  /\ phase' = "init"
  /\ UNCHANGED <<enabled, flag_at_startup, sse_text, sse_data, mcp_session_id, stop_pc, stop_calls, pc, rq, procVars>>

\* lines 200-202: the initialize attempt ends and lifespan yields
StartupInitEnd(o) ==
  /\ phase = "init"
  /\ mcp_session_id' = InitResponse(mcp_session_id, o).session
  /\ phase' = "serving"
  /\ UNCHANGED <<enabled, flag_at_startup, sse_text, sse_data, stop_pc, stop_calls, pc, rq, procVars>>

\* lines 204-206: shutdown, once the handlers have finished
Shutdown ==
  /\ phase = "serving"
  /\ \A r \in Requests : pc[r] = "idle"
  /\ stop_notebooklm_mcp_server
  /\ phase' = IF notebooklm_process = NoProcess THEN "down" ELSE "stopping"
  /\ UNCHANGED <<enabled, flag_at_startup, sse_text, sse_data, pc, rq>>

(***************************************************************************)
(* Request handlers.  A handler runs without interruption up to its next   *)
(* await; the request is posted at the await and its outcome arrives in a  *)
(* later step.  A handler at "done" has just returned.                     *)
(***************************************************************************)
handlerFrame ==
  <<enabled, flag_at_startup, sse_text, sse_data, config_exists, notebooklm_process, spawned, live, terminated, replaced,
    phase, stop_pc, stop_calls>>

\* GET /mcp/list, lines 267-294: up to the tools/list request, or the fallback
ListBegin(r) ==
  /\ Serving /\ NoneDone
  /\ pc[r] = "idle"
  /\ IF IsRunning
     THEN /\ pc' = [pc EXCEPT ![r] = "list_wait"]
          /\ rq' = [rq EXCEPT ![r] =
                      [IdleRq EXCEPT !.op = "list", !.running = ChildAlive,
                                     !.sent = <<Post("tools/list", mcp_session_id)>>]]
     ELSE /\ pc' = [pc EXCEPT ![r] = "done"]
          /\ rq' = [rq EXCEPT ![r] =
                      [IdleRq EXCEPT !.op = "list", !.running = ChildAlive,
                                     !.catalog = Catalog(FALSE, FallbackTools)]]
  /\ UNCHANGED <<mcp_session_id>>
  /\ UNCHANGED handlerFrame

\* lines 295-371: the tools/list request ended with outcome o
ListEnd(r, o) ==
  /\ LoopRuns
  /\ NoneDone
  /\ pc[r] = "list_wait"
  /\ pc' = [pc EXCEPT ![r] = "done"]
  /\ rq' = [rq EXCEPT ![r].out = o,
                      ![r].exc = ListResponse(o).exc,
                      ![r].catalog = ListResponse(o).ret]
  /\ UNCHANGED <<mcp_session_id>>
  /\ UNCHANGED handlerFrame

\* mutant: the tools/call request goes out without waiting for initialize
CallPc_NoReinit == IF IsRunning THEN "call_wait" ELSE "done"

\* lines 379-392: where call_mcp_tool stops first: at the tools/call request
\* when a session id is held, at the initialize request when none is, at its
\* return when the child is not running
CallPc ==
  IF IsRunning
  THEN IF mcp_session_id # None THEN "call_wait" ELSE "init_wait"
  ELSE "done"

\* lines 373-407 and 435-447: the handler's locals at that point
CallSlot(tool_name, arguments) ==
  IF IsRunning
  THEN [IdleRq EXCEPT !.op = "call", !.tool = tool_name, !.arguments = arguments,
                      !.running = ChildAlive,
                      !.sent = IF mcp_session_id # None
                               THEN <<Post("tools/call", mcp_session_id)>>
                               ELSE <<Post("initialize", None)>>]
  ELSE [IdleRq EXCEPT !.op = "call", !.tool = tool_name, !.arguments = arguments,
                      !.running = ChildAlive,
                      !.ret = CallFallback(enabled, tool_name)]

\* POST /mcp/call, lines 373-407 and 435-447: up to the first request (tools/call
\* with the session id, or initialize when there is none), or the failure
CallBegin(r, tool_name, arguments) ==
  /\ Serving /\ NoneDone
  /\ pc[r] = "idle"
  /\ pc' = [pc EXCEPT ![r] = CallPc]
  /\ rq' = [rq EXCEPT ![r] = CallSlot(tool_name, arguments)]
  /\ UNCHANGED <<mcp_session_id>>
  /\ UNCHANGED handlerFrame

\* initialize_mcp_session called by itself: the initialize request is posted
InitBegin(r) ==
  /\ Serving /\ NoneDone
  /\ pc[r] = "idle"
  /\ pc' = [pc EXCEPT ![r] = "init_wait"]
  /\ rq' = [rq EXCEPT ![r] =
              [IdleRq EXCEPT !.op = "init", !.sent = <<Post("initialize", None)>>]]
  /\ UNCHANGED <<mcp_session_id>>
  /\ UNCHANGED handlerFrame

\* mutant: an identifier is stored only while none is held (first writer wins)
InitEnd_IfUnset(r, o) ==
  /\ LoopRuns
  /\ NoneDone
  /\ pc[r] = "init_wait"
  /\ mcp_session_id' = IF mcp_session_id = None
                        THEN InitResponse(mcp_session_id, o).session
                        ELSE mcp_session_id
  /\ pc' = [pc EXCEPT ![r] = IF rq[r].op = "init" THEN "done" ELSE "init_ret"]
  /\ rq' = [rq EXCEPT ![r].init_out = o]
  /\ UNCHANGED handlerFrame

\* lines 109-126: the initialize request ended with outcome o, and
\* initialize_mcp_session is at its return
InitEnd(r, o) ==
  /\ LoopRuns
  /\ NoneDone
  /\ pc[r] = "init_wait"
  /\ mcp_session_id' = InitResponse(mcp_session_id, o).session
  /\ pc' = [pc EXCEPT ![r] = IF rq[r].op = "init" THEN "done" ELSE "init_ret"]
  /\ rq' = [rq EXCEPT ![r].init_out = o]
  /\ UNCHANGED handlerFrame

\* line 390: initialize_mcp_session has returned to call_mcp_tool
InitReturn(r) ==
  /\ LoopRuns
  /\ pc[r] = "init_ret"
  /\ pc' = [pc EXCEPT ![r] = "init_done"]
  /\ rq' = [rq EXCEPT ![r].init_out = NoOutcome]
  /\ UNCHANGED <<mcp_session_id>>
  /\ UNCHANGED handlerFrame

\* lines 391-407: back in call_mcp_tool, the tools/call request is posted
CallAfterInit(r) ==
  /\ LoopRuns
  /\ NoneDone
  /\ pc[r] = "init_done"
  /\ pc' = [pc EXCEPT ![r] = "call_wait"]
  /\ rq' = [rq EXCEPT ![r].sent = Append(@, Post("tools/call", mcp_session_id))]
  /\ UNCHANGED <<mcp_session_id>>
  /\ UNCHANGED handlerFrame

\* lines 409-433: the tools/call request ended with outcome o
CallEnd(r, o) ==
  /\ LoopRuns
  /\ NoneDone
  /\ pc[r] = "call_wait"
  /\ pc' = [pc EXCEPT ![r] = "done"]
  /\ rq' = [rq EXCEPT ![r].out = o,
                      ![r].exc = CallResponse(rq[r].tool, o).exc,
                      ![r].ret = CallResponse(rq[r].tool, o).ret]
  /\ UNCHANGED <<mcp_session_id>>
  /\ UNCHANGED handlerFrame

\* the response has gone to the caller
Return(r) ==
  /\ LoopRuns
  /\ pc[r] = "done"
  /\ pc' = [pc EXCEPT ![r] = "idle"]
  /\ rq' = [rq EXCEPT ![r] = IdleRq]
  /\ UNCHANGED <<mcp_session_id>>
  /\ UNCHANGED handlerFrame

(***************************************************************************)
(* POST /execute (lines 453-473)                                           *)
(***************************************************************************)
\* the actions and the data of the envelopes a caller sends
ExecActions == {"test", "mcp_call", "restart"}
QueryArguments == PyDict(<< <<"q", PyStr("hi")>> >>)
ExecData ==
  { PyDict(<<>>),
    PyDict(<< <<"tool_name", PyStr("x")>> >>),
    PyDict(<< <<"tool_name", PyStr("x")>>, <<"arguments", QueryArguments>> >>),
    PyDict(<< <<"arguments", QueryArguments>> >>),
    PyDict(<< <<"tool_name", PyNone>> >>) }

\* lines 468-469: the fields McpToolRequest is built from
RequestToolName(data) == DictGet(data, "tool_name", PyStr(""))
RequestArguments(data) == DictGet(data, "arguments", PyDict(<<>>))

\* lines 222-224 and 467: McpToolRequest(...) raises, a field failing validation
McpToolRequestRaises(data) ==
  Tag(RequestToolName(data)) # "str" \/ Tag(RequestArguments(data)) # "dict"

\* the str of a tool name
StrOf(name) == IF Len(name) >= 2 THEN name[2] ELSE ""

\* line 463
TestReply ==
  PyDict(<< <<"status", PyStr("success")>>,
            <<"message", PyStr("Sidecar is operational")>> >>)

\* line 473
UnknownReply(action) ==
  PyDict(<< <<"status", PyStr("error")>>,
            <<"message", PyFmt("Unknown action: ", action)>> >>)

\* a handler of /execute that returns without calling call_mcp_tool
ExecSlot(action, data) ==
  [IdleRq EXCEPT !.op = "execute", !.action = action, !.data = data]

\* mutant: the tool name defaults to the action
ExecCall_ActionAsTool(action, data) ==
  [CallSlot(IF HasKey(data, "tool_name") THEN StrOf(RequestToolName(data)) ELSE action,
            RequestArguments(data))
     EXCEPT !.action = action, !.data = data]

\* lines 467-471: call_mcp_tool entered with the request built from data
ExecCall(action, data) ==
  [CallSlot(StrOf(RequestToolName(data)), RequestArguments(data))
     EXCEPT !.action = action, !.data = data]

\* line 465
ExecRouted(action) == action = "mcp_call"

\* lines 462-473: the handler's locals where execute_action stops first
ExecEntry(action, data) ==
  IF action = "test" THEN [ExecSlot(action, data) EXCEPT !.reply = TestReply]
  ELSE IF ~ExecRouted(action)
  THEN [ExecSlot(action, data) EXCEPT !.reply = UnknownReply(action)]
  ELSE IF McpToolRequestRaises(data)
  THEN [ExecSlot(action, data) EXCEPT !.exc = "ValidationError"]
  ELSE ExecCall(action, data)

ExecPc(action, data) ==
  IF action # "test" /\ ExecRouted(action) /\ ~McpToolRequestRaises(data)
  THEN CallPc ELSE "done"

\* POST /execute, lines 457-473: up to its return or to the first request of
\* call_mcp_tool
ExecBegin(r, action, data) ==
  /\ Serving /\ NoneDone
  /\ pc[r] = "idle"
  /\ pc' = [pc EXCEPT ![r] = ExecPc(action, data)]
  /\ rq' = [rq EXCEPT ![r] = ExecEntry(action, data)]
  /\ UNCHANGED <<mcp_session_id>>
  /\ UNCHANGED handlerFrame

(***************************************************************************)
(* GET /health (lines 248-261)                                             *)
(***************************************************************************)
\* line 256: mcp_session_id[:16] + "..." if mcp_session_id else None; the
\* identifiers of SessionIds are shorter than 16 characters
HealthSessionId == IF mcp_session_id # None THEN PyFmt(mcp_session_id, "...") ELSE PyNone

\* lines 253-257: the "notebooklm_mcp" entry of the dict detailed_health returns
HealthMcp ==
  PyDict(<< <<"enabled", PyBool(enabled)>>,
            <<"process_running", PyBool(IsRunning)>>,
            <<"session_id", HealthSessionId>> >>)

\* mutant: a probe that finds the child gone starts it again
Health_Restarting(r) ==
  /\ Serving /\ NoneDone
  /\ pc[r] = "idle"
  /\ pc' = [pc EXCEPT ![r] = "done"]
  /\ rq' = [rq EXCEPT ![r] = [IdleRq EXCEPT !.op = "health", !.reply = HealthMcp]]
  /\ IF ~IsRunning /\ spawned > 0 /\ spawned < MaxSpawn
     THEN start_notebooklm_mcp_server(TRUE, TRUE)
     ELSE UNCHANGED procVars
  /\ UNCHANGED <<enabled, flag_at_startup, sse_text, sse_data, mcp_session_id, phase,
                 stop_pc, stop_calls>>

\* GET /health: detailed_health reads the state and returns
Health(r) ==
  /\ Serving /\ NoneDone
  /\ pc[r] = "idle"
  /\ pc' = [pc EXCEPT ![r] = "done"]
  /\ rq' = [rq EXCEPT ![r] = [IdleRq EXCEPT !.op = "health", !.reply = HealthMcp]]
  /\ UNCHANGED <<mcp_session_id>>
  /\ UNCHANGED handlerFrame

(***************************************************************************)
(* The facade: lifespan starts the child once, then requests are served    *)
(***************************************************************************)
Next ==
  \/ \E write_ok, spawn_ok \in BOOLEAN : Startup(write_ok, spawn_ok)
  \/ StartupInit
  \/ \E o \in InitOutcomes : StartupInitEnd(o)
  \/ Shutdown
  \/ StopReturn
  \/ \E p \in live : ChildExit(p)
  \/ \E r \in Requests : ListBegin(r)
  \/ \E r \in Requests, o \in ListOutcomes : ListEnd(r, o)
  \/ \E r \in Requests, tool_name \in ToolNames, arguments \in ToolArguments :
       CallBegin(r, tool_name, arguments)
  \/ \E r \in Requests, o \in InitOutcomes : InitEnd(r, o)
  \/ \E r \in Requests : InitReturn(r)
  \/ \E r \in Requests : CallAfterInit(r)
  \/ \E r \in Requests, o \in CallOutcomes : CallEnd(r, o)
  \/ \E r \in Requests : Return(r)

Spec == Init /\ [][Next]_vars

(***************************************************************************)
(* The functions called freely, one operation after another: start() and   *)
(* stop() at any time, initialize_mcp_session() and the handlers by a      *)
(* single caller                                                           *)
(***************************************************************************)
InitAPI == InitCommon /\ phase = "api" /\ ParserUnused

ApiStart(write_ok, spawn_ok) ==
  /\ phase = "api" /\ stop_pc = "idle" /\ NoneDone
  /\ spawned < MaxSpawn
  /\ start_notebooklm_mcp_server(write_ok, spawn_ok)
  /\ UNCHANGED <<enabled, flag_at_startup, sse_text, sse_data, mcp_session_id, phase, stop_pc, stop_calls, pc, rq>>

ApiStop ==
  /\ phase = "api" /\ stop_pc = "idle" /\ NoneDone
  /\ stop_calls < MaxStops
  /\ stop_notebooklm_mcp_server
  /\ UNCHANGED <<enabled, flag_at_startup, sse_text, sse_data, phase, pc, rq>>

\* the single caller's handler
Caller == CHOOSE r \in Requests : \A q \in Requests : r <= q

ApiInitOutcomes ==
  {ConnectError, Http(500, <<>>, ""), Http(200, <<>>, "")}
    \cup {Http(200, <<>>, sid) : sid \in SessionIds}
ApiListOutcomes ==
  {Timeout, ConnectError, Http(500, <<>>, ""),
   Http(200, Framed(ToolsResult(Arr(ToolA))), "")}
ApiCallOutcomes ==
  {Timeout, ConnectError, Http(500, <<>>, ""),
   Http(200, Framed(Obj(Member("result", Obj(Member("content", <<S("hi")>>))))), "")}

NextAPI ==
  \/ \E write_ok, spawn_ok \in BOOLEAN : ApiStart(write_ok, spawn_ok)
  \/ ApiStop
  \/ StopReturn
  \/ \E p \in live : ChildExit(p)
  \/ InitBegin(Caller)
  \/ \E o \in ApiInitOutcomes : InitEnd(Caller, o)
  \/ InitReturn(Caller)
  \/ ListBegin(Caller)
  \/ \E o \in ApiListOutcomes : ListEnd(Caller, o)
  \/ \E tool_name \in ToolNames, arguments \in ToolArguments :
       CallBegin(Caller, tool_name, arguments)
  \/ CallAfterInit(Caller)
  \/ \E o \in ApiCallOutcomes : CallEnd(Caller, o)
  \/ \E action \in ExecActions, data \in ExecData : ExecBegin(Caller, action, data)
  \/ Health(Caller)
  \/ Return(Caller)

SpecAPI == InitAPI /\ [][NextAPI]_vars

(***************************************************************************)
(* The facade with all its operations: lifespan starts the child once,     *)
(* then /health, /mcp/list, /mcp/call and /execute are served.  The flag   *)
(* is read from the environment again by every request (lines 254 and      *)
(* 436), so what a request reads need not be what lifespan read.           *)
(***************************************************************************)
\* os.environ holds another value of ENABLE_NOTEBOOKLM_MCP from now on
FlagChanges ==
  /\ Serving /\ NoneDone
  /\ enabled' = ~enabled
  /\ UNCHANGED <<flag_at_startup, sse_text, sse_data, mcp_session_id, phase, stop_pc,
                 stop_calls, pc, rq, procVars>>

\* what the child answers here: no connection, or one well-formed response
ServeInitOutcomes == {ConnectError, Http(200, <<>>, "s1")}
ServeListOutcomes == {ConnectError, Http(200, Framed(ToolsResult(Arr(ToolA))), "")}
ServeCallOutcomes ==
  {ConnectError,
   Http(200, Framed(Obj(Member("result", Obj(Member("content", <<S("hi")>>))))), "")}

\* the envelopes a caller sends to /execute here
ServeData ==
  { PyDict(<<>>),
    PyDict(<< <<"tool_name", PyStr("x")>>, <<"arguments", QueryArguments>> >>),
    PyDict(<< <<"tool_name", PyNone>> >>) }

NextServe ==
  \/ \E write_ok, spawn_ok \in BOOLEAN : Startup(write_ok, spawn_ok)
  \/ StartupInit
  \/ \E o \in ServeInitOutcomes : StartupInitEnd(o)
  \/ Shutdown
  \/ StopReturn
  \/ \E p \in live : ChildExit(p)
  \/ FlagChanges
  \/ \E r \in Requests : Health(r)
  \/ \E r \in Requests : ListBegin(r)
  \/ \E r \in Requests, o \in ServeListOutcomes : ListEnd(r, o)
  \/ \E r \in Requests, tool_name \in ToolNames, arguments \in ToolArguments :
       CallBegin(r, tool_name, arguments)
  \/ \E r \in Requests, action \in ExecActions, data \in ServeData :
       ExecBegin(r, action, data)
  \/ \E r \in Requests, o \in ServeInitOutcomes : InitEnd(r, o)
  \/ \E r \in Requests : InitReturn(r)
  \/ \E r \in Requests : CallAfterInit(r)
  \/ \E r \in Requests, o \in ServeCallOutcomes : CallEnd(r, o)
  \/ \E r \in Requests : Return(r)

SpecServe == Init /\ [][NextServe]_vars

(***************************************************************************)
(* parse_sse_response run alone on a response body                         *)
(***************************************************************************)
\* the frame data: {"a":1} and the object it carries
FrameA == <<DATA, WS>> \o Obj(Member("a", <<N("1")>>))
FrameB == <<DATA, WS>> \o Obj(Member("b", <<N("2")>>))
ObjA == PyDict(<< <<"a", PyInt("1")>> >>)

\* what precedes the payload in a body
Prefixes ==
  { <<>>,
    <<TXT("event: message"), NL>>,
    <<TXT(": ping"), NL, NL>>,
    <<DATA, WS, TXT("[DONE]"), NL, NL>>,
    FrameB \o <<NL, NL>> }

\* the payload
Payloads ==
  { FrameA,
    <<DATA>> \o Obj(Member("a", <<N("1")>>)),
    <<DATA, NL>> \o Obj(Member("a", <<N("1")>>)),
    <<DATA, WS>> \o Obj(Member("a", Obj(Member("b", <<N("1")>>)))),
    <<DATA, WS>> \o Obj(<<TXT("a")>>),
    <<DATA, WS, P("{"), S("a"), P(":"), N("1")>>,
    <<DATA, WS>> \o Arr(<<N("1")>>),
    Obj(Member("a", <<N("1")>>)),
    Arr(<<N("1")>>),
    <<S("a")>>,
    <<TXT("Internal Server Error")>>,
    <<>> }

\* what follows the payload in a body
Suffixes ==
  { <<>>,
    <<NL, NL>>,
    <<NL, TXT("event: done"), NL>>,
    <<NL, NL>> \o FrameB \o <<NL, NL>>,
    <<NL, NL, DATA, WS, TXT("[DONE]"), NL, NL>>,
    <<NL, P("}")>> }

Texts == {p \o c \o x : p \in Prefixes, c \in Payloads, x \in Suffixes}

InitParse ==
  /\ InitCommon /\ phase = "parse"
  /\ sse_text \in Texts
  /\ sse_data = NotCalled

\* parse_sse_response(sse_text) is called and returns
ParseCall ==
  /\ phase = "parse"
  /\ sse_data = NotCalled
  /\ sse_data' = parse_sse_response(sse_text)
  /\ UNCHANGED <<enabled, flag_at_startup, sse_text, mcp_session_id, phase, stop_pc, stop_calls, pc, rq,
                 procVars>>

\* the next body arrives
ParseNext(t) ==
  /\ phase = "parse"
  /\ sse_data # NotCalled
  /\ sse_text' = t
  /\ sse_data' = NotCalled
  /\ UNCHANGED <<enabled, flag_at_startup, mcp_session_id, phase, stop_pc, stop_calls, pc, rq, procVars>>

NextParse ==
  \/ ParseCall
  \/ \E t \in Texts : ParseNext(t)

SpecParse == InitParse /\ [][NextParse]_vars

(***************************************************************************)
(* Properties                                                              *)
(***************************************************************************)
Done(r, op) == pc[r] = "done" /\ rq[r].op = op

\* the tools/list or tools/call request of handler r brought a 200
Got200(r) == rq[r].out.kind = "http" /\ rq[r].out.status = 200

FallbackNames ==
  <<"healthcheck", "chat_with_notebook", "send_chat_message", "get_chat_response",
    "navigate_to_notebook", "get_default_notebook", "set_default_notebook">>

\* list_mcp_tools returns at r, having found the child not running: it returns
\* the fallback catalog with `size` entries, in order, and posted no request
FallbackReturned(r, size) ==
  /\ rq[r].exc = ""
  /\ ~rq[r].catalog.live
  /\ rq[r].catalog.tools = FallbackTools
  /\ Len(rq[r].catalog.tools) = size
  /\ \A i \in 1..Len(rq[r].catalog.tools) :
       /\ i <= Len(FallbackNames)
       /\ rq[r].catalog.tools[i].name = PyStr(FallbackNames[i])
  /\ rq[r].sent = <<>>

\* C1, as claimed: whenever list_tools() finds the child not running (no handle
\* recorded, or the recorded child has exited) it returns the fixed fallback
\* catalog of six entries, in the same order, and issues no outbound request.
C1_Original ==
  \A r \in Requests : Done(r, "list") /\ ~rq[r].running => FallbackReturned(r, 6)

\* C1, amended: the same with a fallback catalog of seven entries (get and set
\* default notebook are two entries).
C1_FallbackCatalog ==
  \A r \in Requests : Done(r, "list") /\ ~rq[r].running => FallbackReturned(r, 7)

\* list_tools() has returned with a handle recorded whose child has exited
C1_Witness ==
  \E r \in Requests :
    Done(r, "list") /\ ~rq[r].running /\ notebooklm_process # NoProcess

C3_Timeout ==
  \A r \in Requests :
    Done(r, "call") /\ rq[r].out = Timeout =>
      /\ rq[r].exc = ""
      /\ rq[r].ret = Payload(FALSE, PyStr("MCP call timed out"), Absent, Absent,
                             Absent, Absent)

\* the tools/call timed out after a re-initialization that left no session id
C3_Witness ==
  \E r \in Requests :
    /\ Done(r, "call") /\ rq[r].out = Timeout
    /\ Len(rq[r].sent) = 2 /\ rq[r].sent[1].method = "initialize"
    /\ rq[r].sent[2].session = None

\* C4: no error is fatal to the facade: every call_tool returns a payload with a
\* success field (and an error when success is false), every list_tools returns
\* a tool list, and neither lets an exception escape, whatever the state of the
\* child and the outcome of the request.
C4_NoFatalError ==
  \A r \in Requests :
    pc[r] = "done" =>
      /\ rq[r].exc = ""
      /\ rq[r].op = "call" =>
           /\ rq[r].ret.success \in BOOLEAN
           /\ ~rq[r].ret.success => rq[r].ret.error # Absent
      /\ rq[r].op = "list" =>
           \A i \in 1..Len(rq[r].catalog.tools) :
             Tag(rq[r].catalog.tools[i].name) = "str"

\* call_tool has returned for a 200 whose body is a bare number, the child
\* having exited meanwhile
C4_Witness ==
  \E r \in Requests :
    /\ Done(r, "call") /\ Got200(r) /\ rq[r].out.body = <<N("5")>>
    /\ ~ChildAlive

\* at most one session token is held
OneSession == mcp_session_id \in SessionIds \cup {None}

\* C5, as claimed: after any sequence of start(), stop(), initialize_session()
\* and requests, at most one spawned child is live (spawned and not yet exited)
\* and at most one session token is held.
C5_Original == Cardinality(live) <= 1 /\ OneSession

\* the raw result of a parsed response and what unwrapping should give
RawResult(data) == DictGet(data, "result", PyNone)
Unwrapped(raw) ==
  IF Tag(raw) = "dict" /\ HasKey(raw, "content") THEN DictGet(raw, "content", PyNone)
  ELSE raw

UnwrappedAsClaimed(r, data) ==
  IF HasKey(data, "error")
  THEN rq[r].ret = Failure(DictGet(data, "error", PyNone))
  ELSE /\ rq[r].ret.success = TRUE
       /\ rq[r].ret.result = Unwrapped(RawResult(data))

\* C6, as claimed: when the child runs and tools/call returns 200, call_tool
\* unwraps the parsed JSON-RPC response for every shape of it: an error field
\* gives {success: false, error: that error}; otherwise success = true with
\* result.content when content is present and the raw result when it is absent.
C6_Original ==
  \A r \in Requests :
    /\ Done(r, "call") /\ rq[r].running /\ Got200(r)
    /\ Tag(parse_sse_response(rq[r].out.body)) = "dict"
    => UnwrappedAsClaimed(r, parse_sse_response(rq[r].out.body))

\* C7: whenever call_tool is invoked while the child is not running it posts no
\* request, leaves the handle and the session id unchanged and returns
\* success = false: the "not enabled" failure with a hint iff the flag is
\* disabled, else the "server is not running" failure naming the tool, no hint.
C7_NotRunningCall ==
  [][\A r \in Requests :
       pc[r] = "idle" /\ pc'[r] # "idle" /\ rq'[r].op = "call" /\ ~ChildAlive =>
         /\ pc'[r] = "done"
         /\ rq'[r].sent = <<>>
         /\ rq'[r].exc = ""
         /\ UNCHANGED <<notebooklm_process, mcp_session_id>>
         /\ rq'[r].ret.success = FALSE
         /\ rq'[r].ret.hint # Absent <=> ~enabled
         /\ rq'[r].ret =
              IF enabled
              THEN Payload(FALSE, PyStr("NotebookLM MCP server is not running"),
                           Absent, PyStr(rq'[r].tool), Absent, Absent)
              ELSE NotEnabled]_vars

\* call_tool has returned "not running" with the flag enabled and the recorded
\* child exited
C7_Witness ==
  \E r \in Requests :
    /\ Done(r, "call") /\ ~rq[r].running /\ enabled
    /\ notebooklm_process # NoProcess

\* data carries a well-formed result.tools list
WellFormedEntry(t) ==
  /\ Tag(t) = "dict"
  /\ HasKey(t, "name") /\ Tag(DictGet(t, "name", PyNone)) = "str"
  /\ HasKey(t, "description") /\ Tag(DictGet(t, "description", PyNone)) = "str"
  /\ HasKey(t, "inputSchema") => Tag(DictGet(t, "inputSchema", PyNone)) = "dict"

WellFormedList(tools) ==
  /\ Tag(tools) = "list"
  /\ \A i \in 1..Len(Items(tools)) : WellFormedEntry(Items(tools)[i])

WellFormedTools(data) ==
  /\ Tag(data) = "dict" /\ HasKey(data, "result")
  /\ Tag(RawResult(data)) = "dict" /\ HasKey(RawResult(data), "tools")
  /\ WellFormedList(DictGet(RawResult(data), "tools", PyNone))

\* C8, as claimed: list_tools() returns the child's live catalog iff the child
\* is running, tools/list returns 200 and the parsed response carries a
\* well-formed result.tools list; in every other case it returns the fixed
\* fallback catalog and surfaces no error.
C8_Original ==
  \A r \in Requests :
    Done(r, "list") =>
      /\ rq[r].exc = ""
      /\ rq[r].catalog.live <=>
           /\ rq[r].running /\ Got200(r)
           /\ WellFormedTools(parse_sse_response(rq[r].out.body))
      /\ ~rq[r].catalog.live => rq[r].catalog.tools = FallbackTools

\* C9: stop() called when no handle is recorded is a no-op: it returns without
\* error, sends no termination signal, waits on nothing and leaves the handle
\* and the session id unchanged, however many times it is repeated.
C9_StopNoHandle ==
  [][stop_calls' = stop_calls + 1 /\ notebooklm_process = NoProcess =>
       /\ stop_pc' = "idle"
       /\ UNCHANGED <<notebooklm_process, mcp_session_id, terminated, live>>]_vars

\* stop() has been called twice with no child ever spawned, a session id held
C9_Witness ==
  /\ stop_calls >= 2 /\ spawned = 0 /\ notebooklm_process = NoProcess
  /\ mcp_session_id # None

\* C10: start() enforces no idempotency: called while a child started by an
\* earlier start() is still running, it spawns a second child, and there are
\* then two independent handles, both of live processes.
C10_DoubleStart ==
  [][spawned' = spawned + 1 /\ ChildAlive =>
       /\ notebooklm_process' # notebooklm_process
       /\ {notebooklm_process, notebooklm_process'} \subseteq live'
       /\ Cardinality(live') >= 2
       /\ terminated' = terminated]_vars

\* two children are live: the recorded one and the one it replaced
C10_Witness ==
  /\ ChildAlive
  /\ \E p \in replaced : p \in live /\ p # notebooklm_process

\* text holds the tokens of frame from position i on, with more text after them
FrameAt(text, frame, i) ==
  /\ i + Len(frame) <= Len(text)
  /\ SubSeq(text, i, i + Len(frame) - 1) = frame

\* text contains frame followed by other text
FrameFollowed(text, frame) == \E i \in 1..Len(text) : FrameAt(text, frame, i)

\* C11, as claimed: for every input body that contains the frame data: {"a":1}
\* followed by any other text, parse_sse_response returns the object {"a":1}.
C11_Original ==
  sse_data # NotCalled /\ FrameFollowed(sse_text, FrameA) => sse_data = ObjA

\* the text json.loads is given: the captured group of a frame, else the body
Captured(text) == IF SseStarts(text) # {} THEN SseGroup(text) ELSE text

\* C12: for every input body that cannot be parsed (a data: frame whose captured
\* text is not valid JSON, or an unframed body that is not valid JSON, the empty
\* body included), parse_sse_response returns None and does not raise.
C12_Unparsable ==
  sse_data # NotCalled /\ ~json_loads(Captured(sse_text)).ok => sse_data = PyNone

\* parse_sse_response has returned None for a frame whose captured text is not
\* valid JSON
C12_Witness ==
  /\ sse_data = PyNone
  /\ SseStarts(sse_text) # {} /\ ~json_loads(SseGroup(sse_text)).ok

\* the request call_tool is to be given for the data of an envelope
ToolNameOf(data) ==
  IF HasKey(data, "tool_name") THEN DictGet(data, "tool_name", PyNone)[2] ELSE ""
ArgumentsOf(data) ==
  IF HasKey(data, "arguments") THEN DictGet(data, "arguments", PyNone) ELSE PyDict(<<>>)
WellTyped(data) ==
  /\ HasKey(data, "tool_name") => Tag(DictGet(data, "tool_name", PyNone)) = "str"
  /\ HasKey(data, "arguments") => Tag(DictGet(data, "arguments", PyNone)) = "dict"

\* handler r returns at once, with no request posted and nothing changed
ReturnsAtOnce(r) ==
  /\ pc'[r] = "done"
  /\ rq'[r].sent = <<>>
  /\ UNCHANGED <<notebooklm_process, mcp_session_id, live, terminated>>

\* handler r, entered through /execute, is where call_tool(tool_name, arguments)
\* invoked in the same state would be
EntersAsCall(r, tool_name, arguments) ==
  /\ pc'[r] = CallPc
  /\ [rq'[r] EXCEPT !.action = "", !.data = Absent] = CallSlot(tool_name, arguments)
  /\ UNCHANGED <<notebooklm_process, mcp_session_id, live, terminated>>

\* handler r, entered through /execute, returns what call_tool returns
ReturnsAsCall(r) ==
  /\ rq'[r].exc = ""
  /\ rq'[r].ret = IF rq'[r].running THEN CallResponse(rq'[r].tool, rq'[r].out).ret
                  ELSE CallFallback(enabled, rq'[r].tool)

\* C13: execute dispatches on action: for "mcp_call" its payload and its effects
\* on the session id and on outbound requests are those of
\* call_tool(data.tool_name, data.arguments) invoked from the same state, a
\* missing tool_name defaulting to "" and missing arguments to {}; for "test" it
\* returns the fixed operational response, and for every other action an error
\* naming the unknown action, both with no request and no state change.
C13_ExecuteDispatch ==
  [][\A r \in Requests :
       /\ pc[r] = "idle" /\ pc'[r] # "idle" /\ rq'[r].action = "test" =>
            /\ ReturnsAtOnce(r)
            /\ rq'[r].exc = ""
            /\ rq'[r].reply = PyDict(<< <<"status", PyStr("success")>>,
                                        <<"message", PyStr("Sidecar is operational")>> >>)
       /\ pc[r] = "idle" /\ pc'[r] # "idle" /\ rq'[r].action \notin {"", "test", "mcp_call"} =>
            /\ ReturnsAtOnce(r)
            /\ rq'[r].exc = ""
            /\ rq'[r].reply = PyDict(<< <<"status", PyStr("error")>>,
                                        <<"message", <<"str", "Unknown action: ", rq'[r].action>> >> >>)
       /\ pc[r] = "idle" /\ pc'[r] # "idle" /\ rq'[r].action = "mcp_call" =>
            IF WellTyped(rq'[r].data)
            THEN EntersAsCall(r, ToolNameOf(rq'[r].data), ArgumentsOf(rq'[r].data))
            ELSE ReturnsAtOnce(r)
       /\ pc[r] # "done" /\ pc'[r] = "done" /\ rq'[r].action = "mcp_call"
          /\ WellTyped(rq'[r].data) => ReturnsAsCall(r)]_vars

\* execute has returned the success of a tools/call for an mcp_call envelope
\* with arguments and no tool_name, the child running
C13_Witness ==
  \E r \in Requests :
    /\ pc[r] = "done" /\ rq[r].action = "mcp_call"
    /\ ~HasKey(rq[r].data, "tool_name") /\ HasKey(rq[r].data, "arguments")
    /\ rq[r].tool = "" /\ rq[r].arguments = QueryArguments
    /\ rq[r].running /\ rq[r].ret.success = TRUE

\* handler r moves from pc value `from`
Leaves(r, from) == pc[r] = from /\ pc'[r] # from

\* C14: for each call_tool invocation with the child running: if the session id
\* is present when checked, no initialize request is issued and the tools/call
\* request carries that id; if it is absent, exactly one initialize request is
\* issued and completes before the tools/call request is sent, which is then
\* sent whether or not the initialization succeeded, with a session header iff
\* a session id is present after the attempt.
C14_SessionBeforeCall ==
  [][\A r \in Requests :
       /\ Leaves(r, "idle") /\ rq'[r].op = "call" /\ ChildAlive =>
            IF mcp_session_id # None
            THEN /\ pc'[r] = "call_wait"
                 /\ rq'[r].sent = <<[method |-> "tools/call", session |-> mcp_session_id]>>
            ELSE /\ pc'[r] = "init_wait"
                 /\ rq'[r].sent = <<[method |-> "initialize", session |-> None]>>
       /\ Leaves(r, "init_wait") /\ rq[r].op = "call" =>
            /\ pc'[r] = "init_ret"
            /\ rq'[r].sent = rq[r].sent
       /\ Leaves(r, "init_ret") =>
            /\ pc'[r] = "init_done"
            /\ rq'[r].sent = rq[r].sent
       /\ Leaves(r, "init_done") =>
            /\ pc'[r] = "call_wait"
            /\ rq'[r].sent =
                 Append(rq[r].sent, [method |-> "tools/call", session |-> mcp_session_id])
            /\ rq'[r].sent[2].session # None <=> mcp_session_id # None
       /\ Leaves(r, "call_wait") =>
            /\ pc'[r] = "done"
            /\ rq'[r].sent = rq[r].sent
            /\ Len(rq[r].sent) = 1 \/ rq[r].sent[1].method = "initialize"]_vars

\* a call_tool that found no session id has initialized one and its tools/call,
\* sent with that id, has ended with a 200
C14_Witness ==
  \E r \in Requests :
    /\ Done(r, "call") /\ Got200(r)
    /\ Len(rq[r].sent) = 2
    /\ rq[r].sent[1].method = "initialize" /\ rq[r].sent[2].method = "tools/call"
    /\ rq[r].sent[2].session \in SessionIds

\* the initialize request ended with a non-200 status or a transport exception
InitFailed(o) == o.kind \in {"timeout", "error"} \/ (o.kind = "http" /\ o.status # 200)

\* the initialize_mcp_session of handler r is at its return
AtInitReturn(r) == pc[r] = "init_ret" \/ Done(r, "init")

\* C15, as claimed: whenever an initialize_session() attempt ends with a non-200
\* status or a transport exception, the session id is unset when that attempt
\* returns, also when the attempt was started by one of several interleaved
\* call_tool invocations.
C15_Original ==
  \A r \in Requests :
    AtInitReturn(r) /\ InitFailed(rq[r].init_out) => mcp_session_id = None

\* C15, amended: an initialize_session() attempt that ends with a non-200 status
\* or a transport exception leaves the session id as it was: it is unset when
\* the attempt returns unless an interleaved attempt has stored one meanwhile.
C15_FailureKeepsSession ==
  [][/\ \A r \in Requests :
          Leaves(r, "init_wait") /\ InitFailed(rq'[r].init_out) =>
            UNCHANGED mcp_session_id
     /\ \A o \in InitOutcomes :
          StartupInitEnd(o) /\ InitFailed(o) => UNCHANGED mcp_session_id]_vars

\* a failed attempt of one call_tool is at its return while the session id an
\* interleaved call_tool has stored is held
C15_Witness ==
  \E r \in Requests :
    /\ pc[r] = "init_ret" /\ InitFailed(rq[r].init_out)
    /\ mcp_session_id \in SessionIds
    /\ \E q \in Requests \ {r} : pc[q] \in {"init_done", "call_wait"}

\* the initialize response o delivers a session identifier
Delivers(o) == o.kind = "http" /\ o.status = 200 /\ o.sid # ""

\* C16: when call_tool invocations interleave and each observes a missing
\* session id, each issues its own initialize request (no mutual exclusion, no
\* de-duplication); the session id is always the identifier delivered by the
\* successful initialize response processed last (last writer wins), and every
\* tools/call request carries no session header or the session id then held,
\* an identifier the child issued in an initialize response.
C16_LastWriterWins ==
  [][\A r \in Requests :
       /\ Leaves(r, "idle") /\ rq'[r].op = "call" /\ ChildAlive /\ mcp_session_id = None =>
            /\ pc'[r] = "init_wait"
            /\ rq'[r].sent = <<[method |-> "initialize", session |-> None]>>
       /\ Leaves(r, "init_wait") =>
            mcp_session_id' = IF Delivers(rq'[r].init_out) THEN rq'[r].init_out.sid
                              ELSE mcp_session_id
       /\ Leaves(r, "init_done") =>
            rq'[r].sent[Len(rq'[r].sent)].session = mcp_session_id
       /\ (\A q \in Requests : pc[q] # "init_wait") /\ phase = "serving" =>
            UNCHANGED mcp_session_id]_vars

\* two interleaved call_tool invocations have each issued their own initialize
\* and each sent tools/call with the identifier then held, the later one's
\* being the session id
C16_Witness ==
  \E r, q \in Requests :
    /\ pc[r] = "call_wait" /\ pc[q] = "call_wait"
    /\ rq[r].sent[1].method = "initialize" /\ rq[q].sent[1].method = "initialize"
    /\ rq[r].sent[2].session \in SessionIds
    /\ rq[q].sent[2].session \in SessionIds \ {rq[r].sent[2].session}
    /\ mcp_session_id = rq[q].sent[2].session

\* what an initialize attempt that ended with outcome o has done to the session id
StoredAsClaimed(o) ==
  /\ o.kind = "http" /\ o.status = 200 /\ o.sid # "" => mcp_session_id' = o.sid
  /\ o.kind = "http" /\ o.status = 200 /\ o.sid = "" => UNCHANGED mcp_session_id

\* C17: when an initialize_session() attempt receives HTTP 200 with a non-empty
\* session identifier header, the session id becomes exactly that identifier
\* whatever the body is (an absent, unparsable or unexpectedly shaped body neither
\* prevents nor undoes the store); when HTTP 200 arrives without the header, or
\* with an empty one, the session id is not changed.
C17_HeaderStored ==
  [][/\ \A r \in Requests : Leaves(r, "init_wait") => StoredAsClaimed(rq'[r].init_out)
     /\ \A o \in InitOutcomes : StartupInitEnd(o) => StoredAsClaimed(o)]_vars

\* an attempt is at its return with the identifier of its response stored, the
\* body being one whose result is no mapping
C17_Witness ==
  \E r \in Requests :
    /\ AtInitReturn(r)
    /\ rq[r].init_out.kind = "http" /\ rq[r].init_out.status = 200
    /\ rq[r].init_out.sid \in SessionIds
    /\ rq[r].init_out.body = Framed(Obj(Member("result", <<S("ok")>>)))
    /\ mcp_session_id = rq[r].init_out.sid

\* C18: stop() called with a handle recorded sends the termination signal to
\* that child, then blocks until that child has exited, and only then clears the
\* handle; so when stop() has returned no handle is recorded, is_running() is
\* false and the child that was recorded has exited.
C18_StopWaits ==
  [][/\ stop_calls' = stop_calls + 1 /\ notebooklm_process # NoProcess =>
          /\ terminated' = terminated \cup {notebooklm_process}
          /\ stop_pc' = "wait"
          /\ UNCHANGED <<notebooklm_process, live>>
     /\ stop_pc = "wait" /\ stop_pc' = "wait" =>
          UNCHANGED <<notebooklm_process, mcp_session_id, spawned, terminated,
                      stop_calls, pc, rq>>
     /\ stop_pc = "wait" /\ stop_pc' # "wait" =>
          /\ notebooklm_process \in terminated
          /\ notebooklm_process \notin live'
          /\ notebooklm_process' = NoProcess
          /\ ~IsRunning'
          /\ stop_pc' = "idle"]_vars

\* stop() has returned for a child that ran while a request handler was waiting
\* for its response
C18_Witness ==
  /\ stop_pc = "idle" /\ stop_calls > 0
  /\ notebooklm_process = NoProcess
  /\ terminated # {} /\ terminated \cap live = {}
  /\ \E r \in Requests : pc[r] \in {"list_wait", "call_wait"} /\ rq[r].running

\* lifespan has called start() and no child was spawned
NotStarted == enabled /\ phase # "boot" /\ spawned = 0

\* a request that has returned was served in no-child mode
NoChildMode(r) ==
  /\ Done(r, "list") => FallbackReturned(r, Len(FallbackTools))
  /\ Done(r, "call") =>
       /\ rq[r].exc = "" /\ rq[r].sent = <<>>
       /\ rq[r].ret = NotRunning(rq[r].tool)

\* C19, as claimed: when the child process cannot be started by start(), the
\* failure is caught inside start(): start() returns without raising, the handle
\* is left unset, facade startup completes, and subsequent list_tools and
\* call_tool requests are served in no-child mode (fallback catalog, failure
\* payload).
C19_Original ==
  NotStarted =>
    /\ phase # "failed"
    /\ notebooklm_process = NoProcess
    /\ \A r \in Requests : NoChildMode(r)

\* C20 (implicit): the session id is never cleared.  Once set, no operation
\* (stop(), the child exiting, a failed initialize, a failed tools/list or
\* tools/call, list_tools, call_tool, execute, health) sets it back to None; it
\* changes only to the identifier a later successful initialize delivers, so it
\* may outlive the child that issued it, and no call_tool starts a
\* re-initialization while one is held.
C20_SessionNeverCleared ==
  [][/\ mcp_session_id # None => mcp_session_id' # None
     /\ mcp_session_id' # mcp_session_id =>
          \E r \in Requests :
            /\ Leaves(r, "init_wait") /\ Delivers(rq'[r].init_out)
            /\ mcp_session_id' = rq'[r].init_out.sid
     /\ \A r \in Requests :
          Leaves(r, "idle") /\ rq'[r].op = "call" /\ mcp_session_id # None =>
            /\ pc'[r] # "init_wait"
            /\ \A i \in 1..Len(rq'[r].sent) : rq'[r].sent[i].method # "initialize"]_vars

\* the session id is held after stop() has returned and every child has exited,
\* and /health reports it
C20_Witness ==
  /\ mcp_session_id \in SessionIds
  /\ stop_pc = "idle" /\ notebooklm_process = NoProcess
  /\ terminated # {} /\ live = {}
  /\ \E r \in Requests :
       /\ Done(r, "health")
       /\ DictGet(rq[r].reply, "session_id", PyNone) # PyNone
       /\ DictGet(rq[r].reply, "process_running", PyNone) = PyBool(FALSE)

(***************************************************************************)
(* C21: when the flag reads disabled at facade startup, start() and        *)
(* initialize_mcp_session() are not run by lifespan, and in every state    *)
(* reached afterwards through /health, /mcp/list, /mcp/call and /execute   *)
(* requests, whatever the flag reads by then, no handle is recorded, no    *)
(* child has been spawned, the session id is unset and no handler has      *)
(* posted a request to the child.                                          *)
(***************************************************************************)
\* no handler has posted a request
NothingSent == \A r \in Requests : rq[r].sent = <<>>

\* lifespan is past line 195 without having run lines 196-200
StartupSkipped == phase \in {"serving", "down"}

C21_DisabledStaysOff ==
  flag_at_startup = "disabled" =>
    /\ StartupSkipped
    /\ spawned = 0
    /\ live = {}
    /\ notebooklm_process = NoProcess
    /\ mcp_session_id = None
    /\ NothingSent
    /\ \A r \in Requests : pc[r] \in {"idle", "done"}

\* the facade started with the flag disabled, the flag reads enabled by now,
\* and a tool call that came in through /execute has returned "not running"
C21_Witness ==
  /\ flag_at_startup = "disabled"
  /\ enabled
  /\ \E r \in Requests :
       /\ pc[r] = "done"
       /\ rq[r].op = "call"
       /\ rq[r].action = "mcp_call"
       /\ rq[r].ret = NotRunning("x")

(***************************************************************************)
(* C22: the child is never restarted.  start() runs only in lifespan's     *)
(* startup, so once the child is seen not running (its exit code is        *)
(* available, or stop() has cleared its handle) it is not running in any   *)
(* later state and no child is spawned; every call_tool entered from then  *)
(* on returns a failure without posting a request, every list_tools the    *)
(* fallback catalog, and /health reports process_running = false.          *)
(***************************************************************************)
\* poll() of the recorded child gives its exit code
ExitCodeAvailable == notebooklm_process # NoProcess /\ ~ChildAlive

\* stop() has cleared the handle of the child lifespan started
HandleCleared == spawned > 0 /\ notebooklm_process = NoProcess

ObservedDown == ExitCodeAvailable \/ HandleCleared

\* what the handler r has just entered answers with the child gone
AnswersDown(r) ==
  /\ pc[r] = "done"
  /\ rq[r].sent = <<>>
  /\ rq[r].exc \in {"", "ValidationError"}
  /\ rq[r].op = "call" => rq[r].ret.success = FALSE
  /\ rq[r].op = "list" => rq[r].catalog = Catalog(FALSE, FallbackTools)
  /\ rq[r].op = "health" =>
       DictGet(rq[r].reply, "process_running", Absent) = PyBool(FALSE)

\* handler r posts a request in this step
Posts(r) == Len(rq'[r].sent) > Len(rq[r].sent)

\* as stated: from then on no call_tool posts a request at all, those that
\* passed the test of line 379 before the child was gone included
C22_Original ==
  [][ObservedDown =>
       /\ ObservedDown'
       /\ ~IsRunning'
       /\ spawned' = spawned
       /\ \A r \in Requests :
            /\ ~Posts(r)
            /\ Leaves(r, "idle") => AnswersDown(r)']_vars

\* C22 with call_tool and list_tools taken from their entry: a handler entered
\* once the child is seen not running answers as stated
C22_NeverRestarted ==
  [][ObservedDown =>
       /\ ObservedDown'
       /\ ~IsRunning'
       /\ spawned' = spawned
       /\ \A r \in Requests : Leaves(r, "idle") => AnswersDown(r)']_vars

\* the child has answered an initialize and exited since; a call_tool entered
\* after that has returned "not running" while another, entered before the
\* exit, still waits for the answer to its tools/call
C22_Witness ==
  /\ ExitCodeAvailable
  /\ phase = "serving"
  /\ mcp_session_id # None
  /\ \E r, q \in Requests :
       /\ pc[r] = "done"
       /\ rq[r].op = "call"
       /\ rq[r].running = FALSE
       /\ rq[r].ret = NotRunning("x")
       /\ pc[q] = "call_wait"

====
